---- MODULE Spec2Model ----
(***************************************************************************)
(* A* search over a geographic graph (src/a_star.c).                       *)
(*                                                                         *)
(* The graph is an array of node structs; every node carries its           *)
(* coordinates, its neighbor list (a singly linked list, appended at the   *)
(* tail) and the search fields g_cost, h_cost, f_cost and parent.  a_star  *)
(* is modelled statement by statement: one step for the initialisation,    *)
(* one for every head of the while loop, one for every neighbor visited    *)
(* and one for the set_add that ends an iteration.                         *)
(*                                                                         *)
(* Coordinates are drawn from the corners of a 3 x 4 rectangle, or from    *)
(* points three units apart on one line, so every distance                 *)
(* sqrt(dx^2 + dy^2) is a whole number and the double arithmetic of the    *)
(* program is exact on them.  The open and closed set come from util.h,    *)
(* which is not part of the sources at hand: they are modelled from their  *)
(* contract, queue_remove taking any entry of least priority.              *)
(***************************************************************************)
EXTENDS Integers, Sequences, FiniteSets, TLC

\* ------------------------------------------------------------------ bounds
NumNodes == 3     \* argument of graph_create
MaxEdges == 3     \* add_edge calls a caller makes
MaxRuns == 2      \* a_star calls a caller makes on one graph without a reset
MaxCreates == 4   \* node_create calls of a caller that may repeat an id
RerunEdges == 2   \* add_edge calls of a caller that searches twice
RoadNodes == 5    \* cities of the caller that loads a road
RoadEdges == 4    \* add_edge calls of that caller

Lats == {0, 4}    \* latitudes a caller passes to node_create
Lons == {0, 3}    \* longitudes a caller passes to node_create

\* the null pointer, as a node number that no node has
NULL == -1

VARIABLES
    num_nodes,       \* graph->num_nodes
    nodes,           \* graph->nodes: node number -> node struct; a slot that
                     \* is still the NULL of calloc is outside the domain
    open_set,        \* a_star's open_set: sequence of [num, priority]
    closed_set,      \* a_star's closed_set
    pc,              \* "idle", or the position inside a_star
    start_node_num,  \* a_star's arguments
    end_node_num,
    curr,            \* a_star's curr
    curr_list,       \* a_star's curr_list: the neighbors still to visit
    result,          \* the value the last a_star call returned
    edges,           \* add_edge calls made so far
    creates,         \* node_create calls made so far
    runs,            \* a_star calls made so far
    fresh,           \* whether the running (or last) a_star call started with
                     \* every cost field at its creation value
    prev             \* the last a_star call that returned: its arguments,
                     \* whether it started fresh, and the graph it ran on

vars == <<num_nodes, nodes, open_set, closed_set, pc, start_node_num,
          end_node_num, curr, curr_list, result, edges, creates, runs, fresh,
          prev>>

search_vars == <<open_set, closed_set, start_node_num, end_node_num, curr,
                 curr_list, result, runs, fresh, prev>>

Ids == 0 .. (num_nodes - 1)

\* ----------------------------------------------------------- linked lists
\* an insert that leaves a list alone when it holds val already
insert_dedup(list, val) ==
    IF \E i \in DOMAIN list : list[i] = val THEN list ELSE Append(list, val)

\* insert: append val at the tail of list
insert(list, val) == Append(list, val)

\* ------------------------------------------------------------- cost model
Sqrt(n) == CHOOSE r \in 0 .. n : r * r = n

calculate_distance(g, num1, num2) ==
    LET y == g[num1].latitude - g[num2].latitude
        x == g[num1].longitude - g[num2].longitude
    IN  Sqrt(x * x + y * y)

calculate_g_cost(g, c, target) == g[c].g_cost + calculate_distance(g, c, target)

fcost(g, c) == g[c].f_cost

gcost(g, c) == g[c].g_cost

set_h_cost(g, c, end) ==
    [g EXCEPT ![c].h_cost = calculate_distance(g, c, end)]

set_f_cost(g, c) ==
    [g EXCEPT ![c].f_cost = g[c].g_cost + g[c].h_cost]

\* ------------------------------------------------------- open / closed set
queue_create == << >>

queue_is_empty(q) == q = << >>

queue_add(q, num, priority) == Append(q, [num |-> num, priority |-> priority])

queue_query(q, num) == \E i \in DOMAIN q : q[i].num = num

queue_change_priority(q, num, priority) ==
    [i \in DOMAIN q |->
        IF q[i].num = num THEN [q[i] EXCEPT !.priority = priority] ELSE q[i]]

\* the positions queue_remove may take: those of least priority (the tie-break
\* among them is the implementation's)
queue_min(q) ==
    {i \in DOMAIN q : \A j \in DOMAIN q : q[i].priority <= q[j].priority}

queue_without(q, i) ==
    [j \in 1 .. (Len(q) - 1) |-> IF j < i THEN q[j] ELSE q[j + 1]]

set_create == {}

set_add(s, num) == s \cup {num}

set_query(s, num) == num \in s

\* ------------------------------------------------------------------ graph
new_node(latitude, longitude) ==
    [latitude |-> latitude, longitude |-> longitude, neighbors |-> << >>,
     parent |-> NULL, f_cost |-> 0, g_cost |-> 0, h_cost |-> 0]

Init ==
    /\ num_nodes = NumNodes
    /\ nodes = << >>
    /\ open_set = queue_create
    /\ closed_set = set_create
    /\ pc = "idle"
    /\ start_node_num = NULL
    /\ end_node_num = NULL
    /\ curr = NULL
    /\ curr_list = << >>
    /\ result = 0
    /\ edges = 0
    /\ creates = 0
    /\ runs = 0
    /\ fresh = TRUE
    /\ prev = [start |-> NULL, end |-> NULL, fresh |-> FALSE, graph |-> << >>]

node_create(node_num, latitude, longitude) ==
    /\ pc = "idle"
    /\ node_num \in Ids
    /\ nodes' = [i \in DOMAIN nodes \cup {node_num} |->
                    IF i = node_num THEN new_node(latitude, longitude)
                    ELSE nodes[i]]
    /\ creates' = creates + 1
    /\ UNCHANGED <<num_nodes, pc, edges, search_vars>>

\* an add_edge that forgets its second insert
add_edge_one_way(g, node_num1, node_num2) ==
    [g EXCEPT ![node_num1].neighbors = insert(@, node_num2)]

\* the two insert calls of add_edge, in their order
add_edge_lists(g, node_num1, node_num2) ==
    LET g1 == [g EXCEPT ![node_num1].neighbors = insert(@, node_num2)]
    IN  [g1 EXCEPT ![node_num2].neighbors = insert(@, node_num1)]

add_edge(node_num1, node_num2) ==
    /\ pc = "idle"
    /\ node_num1 \in DOMAIN nodes
    /\ node_num2 \in DOMAIN nodes
    /\ nodes' = add_edge_lists(nodes, node_num1, node_num2)
    /\ edges' = edges + 1
    /\ UNCHANGED <<num_nodes, pc, creates, search_vars>>

\* ----------------------------------------------------------------- a_star
Fresh(g) ==
    \A i \in DOMAIN g :
        g[i].g_cost = 0 /\ g[i].h_cost = 0 /\ g[i].f_cost = 0 /\ g[i].parent = NULL

\* lines 237-243 with the start node's g_cost put to 0 first
a_star_init_zero_g(g, s, e) ==
    set_f_cost(set_h_cost([g EXCEPT ![s].g_cost = 0], s, e), s)

\* lines 237-243 without the set_h_cost of line 241
a_star_init_no_h(g, s, e) == set_f_cost(g, s)

\* lines 237-243
a_star_init(g, s, e) == set_f_cost(set_h_cost(g, s, e), s)

a_star_call(s, e) ==
    /\ pc = "idle"
    /\ s \in DOMAIN nodes
    /\ e \in DOMAIN nodes
    /\ nodes' = a_star_init(nodes, s, e)
    /\ open_set' = queue_add(queue_create, s, fcost(nodes', s))
    /\ closed_set' = set_create
    /\ start_node_num' = s
    /\ end_node_num' = e
    /\ curr' = NULL
    /\ curr_list' = << >>
    /\ runs' = runs + 1
    /\ fresh' = Fresh(nodes)
    /\ pc' = "loop"
    /\ UNCHANGED <<num_nodes, result, edges, creates, prev>>

\* line 245, the open set is empty: the loop ends
a_star_exhausted ==
    /\ pc = "loop"
    /\ queue_is_empty(open_set)
    /\ pc' = "return"
    /\ UNCHANGED <<num_nodes, nodes, open_set, closed_set, start_node_num,
                   end_node_num, curr, curr_list, result, edges, creates,
                   runs, fresh, prev>>

\* lines 245-251: queue_remove, then either the break or the neighbor list
a_star_remove ==
    /\ pc = "loop"
    /\ ~queue_is_empty(open_set)
    /\ \E i \in queue_min(open_set) :
        /\ curr' = open_set[i].num
        /\ open_set' = queue_without(open_set, i)
    /\ IF curr' = end_node_num
       THEN pc' = "return" /\ curr_list' = << >>
       ELSE pc' = "relax" /\ curr_list' = nodes[curr'].neighbors
    /\ UNCHANGED <<num_nodes, nodes, closed_set, start_node_num, end_node_num,
                   result, edges, creates, runs, fresh, prev>>

\* lines 262-269 without skip condition 2
skips_open_only(g, q, c, neighbor, potential_g) ==
    queue_query(q, neighbor) /\ gcost(g, neighbor) <= potential_g

\* lines 262-269 with < for the <= of line 264
skips_strict(g, q, c, neighbor, potential_g) ==
    \/ queue_query(q, neighbor) /\ gcost(g, neighbor) < potential_g
    \/ set_query(c, neighbor)

\* lines 262-269: whether the neighbor is skipped, read after set_h_cost
skips(g, q, c, neighbor, potential_g) ==
    \/ queue_query(q, neighbor) /\ gcost(g, neighbor) <= potential_g
    \/ set_query(c, neighbor)

\* lines 271-273
relax_node(g, c, neighbor, potential_g) ==
    set_f_cost([g EXCEPT ![neighbor].g_cost = potential_g], neighbor)

relax_parent(g, c, neighbor) == [g EXCEPT ![neighbor].parent = c]

\* lines 275-278 without the queue_add branch
relax_queue_no_add(q, g, neighbor) ==
    queue_change_priority(q, neighbor, fcost(g, neighbor))

\* lines 275-278 with queue_add whether or not the node is in the queue
relax_queue_always_add(q, g, neighbor) ==
    queue_add(q, neighbor, fcost(g, neighbor))

\* lines 275-278
relax_queue(q, g, neighbor) ==
    IF ~queue_query(q, neighbor)
    THEN queue_add(q, neighbor, fcost(g, neighbor))
    ELSE queue_change_priority(q, neighbor, fcost(g, neighbor))

\* line 255 with the test insert makes at line 49 (last->next != NULL)
more_neighbors_but_last(list) == Len(list) > 1

\* line 255: the test of the inner while loop
more_neighbors(list) == list # << >>

\* lines 255-279 with the advance of line 260 moved to the end of the loop
\* body, where a continue jumps over it
a_star_relax_late_advance ==
    /\ pc = "relax"
    /\ more_neighbors(curr_list)
    /\ LET neighbor == Head(curr_list)
           g1 == set_h_cost(nodes, neighbor, end_node_num)
           potential_g == calculate_g_cost(g1, curr, neighbor)
       IN  IF skips(g1, open_set, closed_set, neighbor, potential_g)
           THEN /\ nodes' = g1
                /\ open_set' = open_set
                /\ curr_list' = curr_list
           ELSE /\ nodes' = relax_parent(
                                relax_node(g1, curr, neighbor, potential_g),
                                curr, neighbor)
                /\ open_set' = relax_queue(open_set, nodes', neighbor)
                /\ curr_list' = Tail(curr_list)
    /\ UNCHANGED <<num_nodes, closed_set, pc, start_node_num, end_node_num,
                   curr, result, edges, creates, runs, fresh, prev>>

\* lines 255-279 with line 260 advancing the node's own list head
\* (graph->nodes[curr]->neighbors) together with curr_list
a_star_relax_consuming ==
    /\ pc = "relax"
    /\ more_neighbors(curr_list)
    /\ LET neighbor == Head(curr_list)
           g1 == set_h_cost(nodes, neighbor, end_node_num)
           potential_g == calculate_g_cost(g1, curr, neighbor)
           g2 == IF skips(g1, open_set, closed_set, neighbor, potential_g)
                 THEN g1
                 ELSE relax_parent(relax_node(g1, curr, neighbor, potential_g),
                                   curr, neighbor)
       IN  /\ curr_list' = Tail(curr_list)
           /\ nodes' = [g2 EXCEPT ![curr].neighbors = Tail(curr_list)]
           /\ open_set' =
                IF skips(g1, open_set, closed_set, neighbor, potential_g)
                THEN open_set
                ELSE relax_queue(open_set, nodes', neighbor)
    /\ UNCHANGED <<num_nodes, closed_set, pc, start_node_num, end_node_num,
                   curr, result, edges, creates, runs, fresh, prev>>

\* lines 255-279: one pass of the inner while loop
a_star_relax ==
    /\ pc = "relax"
    /\ more_neighbors(curr_list)
    /\ LET neighbor == Head(curr_list)
           g1 == set_h_cost(nodes, neighbor, end_node_num)
           potential_g == calculate_g_cost(g1, curr, neighbor)
       IN  /\ curr_list' = Tail(curr_list)
           /\ IF skips(g1, open_set, closed_set, neighbor, potential_g)
              THEN /\ nodes' = g1
                   /\ open_set' = open_set
              ELSE /\ nodes' = relax_parent(
                                   relax_node(g1, curr, neighbor, potential_g),
                                   curr, neighbor)
                   /\ open_set' = relax_queue(open_set, nodes', neighbor)
    /\ UNCHANGED <<num_nodes, closed_set, pc, start_node_num, end_node_num,
                   curr, result, edges, creates, runs, fresh, prev>>

\* line 280
a_star_close ==
    /\ pc = "relax"
    /\ ~more_neighbors(curr_list)
    /\ closed_set' = set_add(closed_set, curr)
    /\ pc' = "loop"
    /\ UNCHANGED <<num_nodes, nodes, open_set, start_node_num, end_node_num,
                   curr, curr_list, result, edges, creates, runs, fresh, prev>>

\* a return that forgets the test of line 283
return_value_no_sentinel(g, e) == fcost(g, e)

\* lines 283-286
return_value(g, e) == IF gcost(g, e) = 0 THEN -1 ELSE fcost(g, e)

\* the graph with every search field put back to its creation value
\* (lines 184-187); coordinates and neighbor lists stay
reset_fields(g) ==
    [n \in DOMAIN g |->
        [g[n] EXCEPT !.parent = NULL, !.f_cost = 0, !.g_cost = 0, !.h_cost = 0]]

a_star_return ==
    /\ pc = "return"
    /\ result' = return_value(nodes, end_node_num)
    /\ pc' = "idle"
    /\ open_set' = queue_create
    /\ closed_set' = set_create
    /\ curr' = NULL
    /\ curr_list' = << >>
    /\ prev' = [start |-> start_node_num, end |-> end_node_num,
                 fresh |-> fresh, graph |-> reset_fields(nodes)]
    /\ UNCHANGED <<num_nodes, nodes, start_node_num, end_node_num, edges,
                   creates, runs, fresh>>

\* a caller that puts the search fields back before searching again
reset_costs ==
    /\ pc = "idle"
    /\ nodes' = reset_fields(nodes)
    /\ UNCHANGED <<num_nodes, pc, edges, creates, search_vars>>

\* ------------------------------------------------------------ the callers
\* A caller that loads the graph and then searches it: every node once, the
\* edges, then a_star calls one after the other with no reset in between.
LoadNode ==
    \E n \in Ids \ DOMAIN nodes, la \in Lats, lo \in Lons :
        edges = 0 /\ runs = 0 /\ node_create(n, la, lo)

LoadEdge ==
    \E a \in Ids, b \in Ids :
        DOMAIN nodes = Ids /\ runs = 0 /\ edges < MaxEdges /\ add_edge(a, b)

Search ==
    \E s \in Ids, e \in Ids :
        DOMAIN nodes = Ids /\ runs = 0 /\ a_star_call(s, e)

\* a_star runs to its return without suspension
a_star_step ==
    \/ a_star_exhausted
    \/ a_star_remove
    \/ a_star_relax
    \/ a_star_close
    \/ a_star_return

Next ==
    \/ LoadNode
    \/ LoadEdge
    \/ Search
    \/ a_star_exhausted
    \/ a_star_remove
    \/ a_star_relax
    \/ a_star_close
    \/ a_star_return

Spec == Init /\ [][Next]_vars

\* A caller that only builds, and may pass an id to node_create again (its
\* cities lie along one line of latitude: the neighbor lists do not read
\* the coordinates).
CreateNode ==
    \E n \in Ids, lo \in Lons :
        creates < MaxCreates /\ node_create(n, 0, lo)

AddEdge ==
    \E a \in Ids, b \in Ids : edges < MaxEdges /\ add_edge(a, b)

BuildNext == CreateNode \/ AddEdge

BuildSpec == Init /\ [][BuildNext]_vars

\* A caller that searches one graph again and again without a reset.
LoadFewEdges ==
    \E a \in Ids, b \in Ids :
        DOMAIN nodes = Ids /\ runs = 0 /\ edges < RerunEdges /\ add_edge(a, b)

SearchAgain ==
    \E s \in Ids, e \in Ids :
        DOMAIN nodes = Ids /\ runs < MaxRuns /\ a_star_call(s, e)

RerunNext ==
    \/ LoadNode
    \/ LoadFewEdges
    \/ SearchAgain
    \/ a_star_exhausted
    \/ a_star_remove
    \/ a_star_relax
    \/ a_star_close
    \/ a_star_return

RerunSpec == Init /\ [][RerunNext]_vars

\* The same caller with its cities along one line of latitude.  a_star has
\* no suspension point, so once called it keeps taking its steps.
LoadLineNode ==
    \E n \in Ids \ DOMAIN nodes, lo \in Lons :
        edges = 0 /\ runs = 0 /\ node_create(n, 0, lo)

LineNext ==
    \/ LoadLineNode
    \/ LoadFewEdges
    \/ SearchAgain
    \/ a_star_exhausted
    \/ a_star_remove
    \/ a_star_relax
    \/ a_star_close
    \/ a_star_return

FairSpec == Init /\ [][LineNext]_vars /\ WF_vars(a_star_step)

\* A caller that searches a fresh graph, resets it, adds one edge and runs
\* the same search again.
Reset == runs = 1 /\ ~Fresh(nodes) /\ reset_costs

AddAfter ==
    \E a \in Ids, b \in Ids :
        /\ runs = 1
        /\ Fresh(nodes)
        /\ nodes = prev.graph
        /\ add_edge(a, b)

SameSearch ==
    /\ runs = 1
    /\ Fresh(nodes)
    /\ nodes # prev.graph
    /\ a_star_call(prev.start, prev.end)

DupNext ==
    \/ LoadNode
    \/ LoadFewEdges
    \/ Search
    \/ Reset
    \/ AddAfter
    \/ SameSearch
    \/ a_star_exhausted
    \/ a_star_remove
    \/ a_star_relax
    \/ a_star_close
    \/ a_star_return

DupSpec == Init /\ [][DupNext]_vars

\* A caller that loads RoadNodes cities three units apart along one road and
\* searches the way to the first of them.
RoadInit ==
    /\ num_nodes = RoadNodes
    /\ nodes = << >>
    /\ open_set = queue_create
    /\ closed_set = set_create
    /\ pc = "idle"
    /\ start_node_num = NULL
    /\ end_node_num = NULL
    /\ curr = NULL
    /\ curr_list = << >>
    /\ result = 0
    /\ edges = 0
    /\ creates = 0
    /\ runs = 0
    /\ fresh = TRUE
    /\ prev = [start |-> NULL, end |-> NULL, fresh |-> FALSE, graph |-> << >>]

LoadRoadNode ==
    \E n \in Ids \ DOMAIN nodes :
        n = Cardinality(DOMAIN nodes) /\ edges = 0 /\ runs = 0
            /\ node_create(n, 0, 3 * n)

LoadRoadEdge ==
    \E a \in Ids, b \in Ids :
        DOMAIN nodes = Ids /\ runs = 0 /\ edges < RoadEdges /\ add_edge(a, b)

RoadSearch ==
    \E s \in Ids : DOMAIN nodes = Ids /\ runs = 0 /\ a_star_call(s, 0)

RoadNext ==
    \/ LoadRoadNode
    \/ LoadRoadEdge
    \/ RoadSearch
    \/ a_star_exhausted
    \/ a_star_remove
    \/ a_star_relax
    \/ a_star_close
    \/ a_star_return

RoadSpec == RoadInit /\ [][RoadNext]_vars

\* --------------------------------------------- what the claims speak about
Range(list) == {list[i] : i \in DOMAIN list}

Min(S) == CHOOSE x \in S : \A y \in S : x <= y

\* the nodes a walk along neighbor lists reaches from the nodes of S
RECURSIVE ReachFrom(_, _)
ReachFrom(g, S) ==
    LET T == S \cup UNION {Range(g[m].neighbors) : m \in S}
    IN  IF T = S THEN S ELSE ReachFrom(g, T)

Reachable(g, s) == ReachFrom(g, {s})

\* the lengths of the walks of at most k edges from s, per end node
RECURSIVE WalkCosts(_, _, _)
WalkCosts(g, s, k) ==
    IF k = 0
    THEN [n \in DOMAIN g |-> IF n = s THEN {0} ELSE {}]
    ELSE LET w == WalkCosts(g, s, k - 1)
         IN  [n \in DOMAIN g |->
                 w[n] \cup UNION {{c + calculate_distance(g, m, n) : c \in w[m]} :
                                  m \in {x \in DOMAIN g : n \in Range(g[x].neighbors)}}]

\* the length of a shortest path from s to e (e reachable from s)
ShortestPath(g, s, e) == Min(WalkCosts(g, s, Cardinality(DOMAIN g) - 1)[e])

\* the loop has ended and a_star is about to compute its return value
Found == pc = "return" /\ curr = end_node_num
Exhausted == pc = "return" /\ curr # end_node_num

\* C1: on a fresh graph, for distinct start and goal with goal reachable,
\* a_star returns the length of a shortest start-to-goal path.
C1_ShortestPath ==
    (pc = "return" /\ fresh /\ start_node_num # end_node_num
        /\ end_node_num \in Reachable(nodes, start_node_num))
    => return_value(nodes, end_node_num)
         = ShortestPath(nodes, start_node_num, end_node_num)

\* C1 where the shortest path has positive length (used to compare)
C1_PositiveShortestPath ==
    (pc = "return" /\ fresh /\ start_node_num # end_node_num
        /\ end_node_num \in Reachable(nodes, start_node_num)
        /\ ShortestPath(nodes, start_node_num, end_node_num) > 0)
    => return_value(nodes, end_node_num)
         = ShortestPath(nodes, start_node_num, end_node_num)

\* C2: a_star(graph, s, s) returns 0.
C2_StartIsGoal ==
    (pc = "return" /\ start_node_num = end_node_num)
    => return_value(nodes, end_node_num) = 0

\* C3: on a fresh graph, a_star returns -1 when goal is not reachable from
\* start.
C3_Unreachable ==
    (pc = "return" /\ fresh
        /\ end_node_num \notin Reachable(nodes, start_node_num))
    => return_value(nodes, end_node_num) = -1

C3_Witness ==
    /\ pc = "return" /\ fresh
    /\ end_node_num \notin Reachable(nodes, start_node_num)
    /\ Cardinality(Reachable(nodes, start_node_num)) >= 2
    /\ return_value(nodes, end_node_num) = -1

\* C4: when the run ends with the open set empty, the closed set is exactly
\* the set of nodes reachable from start.
C4_ClosedIsComponent ==
    Exhausted => closed_set = Reachable(nodes, start_node_num)

C4_Witness ==
    /\ Exhausted
    /\ Cardinality(closed_set) >= 2
    /\ closed_set # DOMAIN nodes
    /\ closed_set = Reachable(nodes, start_node_num)

\* following parent references from n reaches s within k steps, each step
\* from a node to a parent that lists it as a neighbor
RECURSIVE ParentChain(_, _, _, _)
ParentChain(g, n, s, k) ==
    IF n = s THEN TRUE
    ELSE IF k = 0 \/ g[n].parent = NULL THEN FALSE
    ELSE /\ n \in Range(g[g[n].parent].neighbors)
         /\ ParentChain(g, g[n].parent, s, k - 1)

\* the summed distances along that chain
RECURSIVE ChainLength(_, _, _, _)
ChainLength(g, n, s, k) ==
    IF n = s \/ k = 0 \/ g[n].parent = NULL THEN 0
    ELSE calculate_distance(g, g[n].parent, n)
            + ChainLength(g, g[n].parent, s, k - 1)

HasSelfLoop(g) == \E n \in DOMAIN g : n \in Range(g[n].neighbors)

\* C6: when a run on a fresh graph ends by dequeuing a goal different from
\* start, the parent references lead from goal to start in finitely many
\* steps, each along an edge of the graph (the chain itself; the length of
\* the chain is compared with the returned value in C6_ChainLength).
C6_ParentChain ==
    (Found /\ fresh /\ start_node_num # end_node_num)
    => ParentChain(nodes, end_node_num, start_node_num, Cardinality(DOMAIN nodes))

\* C6, its last clause: the summed edge distances along the chain equal the
\* value a_star returns.
C6_ChainLength ==
    (Found /\ fresh /\ start_node_num # end_node_num)
    => /\ ParentChain(nodes, end_node_num, start_node_num, Cardinality(DOMAIN nodes))
       /\ ChainLength(nodes, end_node_num, start_node_num, Cardinality(DOMAIN nodes))
            = return_value(nodes, end_node_num)

\* C6 on graphs without an edge from a node to itself and with a goal at a
\* positive distance (used to compare)
C6_NoSelfLoop ==
    (Found /\ fresh /\ start_node_num # end_node_num /\ ~HasSelfLoop(nodes)
        /\ ShortestPath(nodes, start_node_num, end_node_num) > 0)
    => /\ ParentChain(nodes, end_node_num, start_node_num, Cardinality(DOMAIN nodes))
       /\ ChainLength(nodes, end_node_num, start_node_num, Cardinality(DOMAIN nodes))
            = return_value(nodes, end_node_num)

\* C9: at every point of a run the open set holds at most one entry per node.
C9_OneEntryPerNode ==
    \A i \in DOMAIN open_set, j \in DOMAIN open_set :
        open_set[i].num = open_set[j].num => i = j

\* C5: whatever the cost fields hold when a_star is called, its loop ends:
\* by dequeuing the goal or with the open set empty.
C5_Terminates ==
    (pc = "loop") ~> (Found \/ (Exhausted /\ queue_is_empty(open_set)))

C5_Witness ==
    /\ pc = "return" /\ runs = 2 /\ ~fresh
    /\ Cardinality(closed_set) >= 2

\* the neighbor lists name existing nodes only, and a lists b iff b lists a
Symmetric(g) ==
    \A a \in DOMAIN g : \A b \in Range(g[a].neighbors) :
        b \in DOMAIN g /\ a \in Range(g[b].neighbors)

Appended(a, b) ==
    /\ DOMAIN nodes' = DOMAIN nodes
    /\ \A n \in DOMAIN nodes :
        LET old == nodes[n].neighbors
            new == nodes'[n].neighbors
            grown == (IF n = a THEN 1 ELSE 0) + (IF n = b THEN 1 ELSE 0)
        IN  /\ Len(new) = Len(old) + grown
            /\ \A i \in 1 .. Len(old) : new[i] = old[i]
            /\ n = a => new[Len(old) + 1] = b
            /\ n = b => new[Len(new)] = a

\* C8: each add_edge(a, b) appends one b at the end of a's list and one a at
\* the end of b's list, keeps the earlier entries and never deduplicates.
C8_AddEdgeAppends ==
    [][edges' = edges + 1 =>
        \E a \in DOMAIN nodes, b \in DOMAIN nodes : Appended(a, b)]_vars

C8_Witness ==
    \E a \in DOMAIN nodes :
        LET l == nodes[a].neighbors
        IN  /\ Len(l) >= 3
            /\ l[1] # a /\ l[1] # l[2] /\ l[3] = l[1]

\* C10: adding an edge that is already there once more does not change what
\* a_star returns, for the same start and goal, on fresh graphs.
C10_DuplicateEdge ==
    (/\ pc = "return" /\ fresh /\ prev.fresh
     /\ prev.start = start_node_num /\ prev.end = end_node_num
     /\ \E a \in DOMAIN nodes, b \in DOMAIN nodes :
            /\ b \in Range(prev.graph[a].neighbors)
            /\ reset_fields(nodes) = add_edge_lists(prev.graph, a, b))
    => return_value(nodes, end_node_num) = result

C10_Witness ==
    /\ pc = "return" /\ fresh /\ prev.fresh
    /\ prev.start = start_node_num /\ prev.end = end_node_num
    /\ \E a \in DOMAIN nodes, b \in DOMAIN nodes :
            /\ a # b
            /\ b \in Range(prev.graph[a].neighbors)
            /\ reset_fields(nodes) = add_edge_lists(prev.graph, a, b)
            /\ {a, b} = {start_node_num, curr}
    /\ result > 0
    /\ return_value(nodes, end_node_num) = result

\* a node of the open set gets a better g_cost from curr, after a node closed
\* earlier had it as a neighbor already
C9_Witness ==
    /\ pc = "relax" /\ fresh
    /\ \E n \in DOMAIN nodes, x \in closed_set :
        /\ n # curr /\ x # curr
        /\ n \in Range(nodes[x].neighbors)
        /\ queue_query(open_set, n)
        /\ ~set_query(closed_set, n)
        /\ nodes[n].parent = curr
    /\ C9_OneEntryPerNode

\* ------------------------------------------------- resets between searches
\* A caller that searches a fresh graph, resets it and runs the same search
\* again on the same graph.
SearchSame ==
    /\ runs = 1
    /\ Fresh(nodes)
    /\ a_star_call(prev.start, prev.end)

ResetNext ==
    \/ LoadNode
    \/ LoadFewEdges
    \/ Search
    \/ Reset
    \/ SearchSame
    \/ a_star_exhausted
    \/ a_star_remove
    \/ a_star_relax
    \/ a_star_close
    \/ a_star_return

ResetSpec == Init /\ [][ResetNext]_vars

\* C11: a_star run twice with the same graph, start and goal, every g_cost,
\* h_cost, f_cost and parent at its creation value before each run, returns
\* the same value both times.
C11_Idempotent ==
    (/\ pc = "return" /\ runs = 2 /\ fresh /\ prev.fresh
     /\ prev.start = start_node_num /\ prev.end = end_node_num)
    => return_value(nodes, end_node_num) = result

C11_Witness ==
    /\ pc = "return" /\ runs = 2 /\ fresh /\ prev.fresh
    /\ prev.start = start_node_num /\ prev.end = end_node_num
    /\ reset_fields(nodes) = prev.graph
    /\ Cardinality(closed_set) >= 2
    /\ result > 0
    /\ return_value(nodes, end_node_num) = result

\* --------------------------------------------------- closed nodes, C12
\* how many entries of the open set q belong to node n
Entries(q, n) == Cardinality({i \in DOMAIN q : q[i].num = n})

\* the neighbors of curr that the inner loop has visited already
Visited ==
    LET all == nodes[curr].neighbors
    IN  {all[i] : i \in 1 .. (Len(all) - Len(curr_list))}

\* the next neighbor is closed and curr offers it a smaller g_cost (no run
\* of RerunSpec gets there: the straight-line h_cost is consistent, so a node
\* is closed with its least g_cost)
CheaperThroughCurr ==
    /\ pc = "relax" /\ more_neighbors(curr_list)
    /\ set_query(closed_set, Head(curr_list))
    /\ calculate_g_cost(nodes, curr, Head(curr_list))
         < gcost(nodes, Head(curr_list))

\* C12: within one run, a node of the closed set stays there, its g_cost,
\* f_cost and parent are never written again and it gets no new entry in the
\* open set.
C12_ClosedIsFinal ==
    [][(pc # "idle" /\ pc' # "idle") =>
        \A n \in closed_set :
            /\ n \in closed_set'
            /\ nodes'[n].g_cost = nodes[n].g_cost
            /\ nodes'[n].f_cost = nodes[n].f_cost
            /\ nodes'[n].parent = nodes[n].parent
            /\ Entries(open_set', n) <= Entries(open_set, n)]_vars

\* curr has just visited a closed neighbor that is not in the open set
C12_Witness ==
    /\ pc = "relax"
    /\ \E n \in Visited \cap closed_set :
        /\ n # curr
        /\ ~queue_query(open_set, n)
        /\ nodes[n].parent # curr
        /\ gcost(nodes, n) > 0

\* ------------------------------------------- searches without a reset
\* C13: in a sequence of a_star calls with no reset between them, every call
\* whose goal is not reachable from its start returns -1.
C13_UnreachableNoReset ==
    (pc = "return" /\ end_node_num \notin Reachable(nodes, start_node_num))
    => return_value(nodes, end_node_num) = -1

\* C14: a_star never changes the g_cost of its start node, whatever the cost
\* fields hold at the call: not at the initialisation, not in a relaxation
\* (no step of a call changes it, so it is at return what it was at entry).
C14_StartGCostKept ==
    [][(pc # "idle" \/ pc' # "idle") =>
        nodes'[start_node_num'].g_cost = nodes[start_node_num'].g_cost]_vars

\* a second run, from a start that an earlier run left with a g_cost, has
\* closed a neighbor of start that lists start
C14_Witness ==
    /\ pc = "return" /\ runs = 2 /\ ~fresh
    /\ gcost(nodes, start_node_num) > 0
    /\ \E x \in closed_set :
        /\ x # start_node_num
        /\ start_node_num \in Range(nodes[x].neighbors)
        /\ gcost(nodes, x) > gcost(nodes, start_node_num)

\* ------------------------------------------------ priorities, C15
\* the pass of the inner loop about to be taken ends in line 278, a
\* queue_change_priority call for the neighbor at the head of curr_list
CallsChangePriority ==
    /\ pc = "relax" /\ more_neighbors(curr_list)
    /\ LET neighbor == Head(curr_list)
           g1 == set_h_cost(nodes, neighbor, end_node_num)
       IN  /\ ~skips(g1, open_set, closed_set, neighbor,
                     calculate_g_cost(g1, curr, neighbor))
           /\ queue_query(open_set, neighbor)

\* C15: every queue_change_priority call of a_star passes a priority strictly
\* lower than the one the node's entry has, and the g_cost of a node of the
\* open set only ever decreases.
C15_PriorityImproves ==
    [][/\ CallsChangePriority =>
            \A i \in DOMAIN open_set :
                open_set[i].num = Head(curr_list)
                    => fcost(nodes', Head(curr_list)) < open_set[i].priority
       /\ (pc # "idle" /\ pc' # "idle") =>
            \A n \in DOMAIN nodes :
                (queue_query(open_set, n) /\ queue_query(open_set', n))
                    => /\ nodes'[n].g_cost <= nodes[n].g_cost
                       /\ \A i \in DOMAIN open_set, j \in DOMAIN open_set' :
                            (open_set[i].num = n /\ open_set'[j].num = n)
                                => open_set'[j].priority <= open_set[i].priority
      ]_vars

\* queue_change_priority has just lowered the priority of an open node
C15_Witness ==
    /\ pc = "relax" /\ fresh
    /\ \E n \in Visited :
        /\ n # curr
        /\ queue_query(open_set, n)
        /\ nodes[n].parent = curr
        /\ \E x \in closed_set :
            /\ x # curr
            /\ n \in Range(nodes[x].neighbors)
            /\ gcost(nodes, x) + calculate_distance(nodes, x, n)
                 > gcost(nodes, n)

\* C16: when a_star leaves its loop by dequeuing the goal, h_cost(goal) is 0
\* and f_cost(goal) = g_cost(goal), so an f_cost that line 286 returns is the
\* goal's g_cost.
C16_GoalCosts ==
    Found =>
        /\ nodes[end_node_num].h_cost = 0
        /\ fcost(nodes, end_node_num) = gcost(nodes, end_node_num)
        /\ gcost(nodes, end_node_num) # 0
            => return_value(nodes, end_node_num) = gcost(nodes, end_node_num)

\* a second run has dequeued a goal that was not the goal of the first run,
\* which left it an h_cost other than 0
C16_Witness ==
    /\ Found /\ runs = 2
    /\ prev.end # end_node_num
    /\ calculate_distance(nodes, end_node_num, prev.end) > 0
    /\ end_node_num \in Reachable(nodes, prev.start)
    /\ gcost(nodes, end_node_num) > 0
    /\ return_value(nodes, end_node_num) = gcost(nodes, end_node_num)

\* C17: at every boundary between two iterations of the loop (and at its
\* end), no node is in the open set and in the closed set, whatever graph
\* add_edge built.
C17_OpenClosedDisjoint ==
    (pc = "loop" \/ pc = "return")
    => \A i \in DOMAIN open_set : ~set_query(closed_set, open_set[i].num)

\* C17 on graphs without an edge from a node to itself (used to compare)
C17_DisjointNoSelfLoop ==
    ((pc = "loop" \/ pc = "return") /\ ~HasSelfLoop(nodes))
    => \A i \in DOMAIN open_set : ~set_query(closed_set, open_set[i].num)

\* C18: from a fresh graph, a_star called twice in a row with the same start
\* and goal and no reset in between returns the same value the second time.
C18_SameCallTwice ==
    (/\ pc = "return" /\ runs = 2 /\ prev.fresh
     /\ prev.start = start_node_num /\ prev.end = end_node_num)
    => return_value(nodes, end_node_num) = result

\* the second call ran on the cost fields the first one left and went
\* through a node between start and goal
C18_Witness ==
    /\ pc = "return" /\ runs = 2 /\ prev.fresh /\ ~fresh
    /\ prev.start = start_node_num /\ prev.end = end_node_num
    /\ Found
    /\ Cardinality(closed_set) >= 2
    /\ result > 0
    /\ return_value(nodes, end_node_num) = result

====
